---- MODULE Spec2Model ----
(***************************************************************************)
(* A model of plunger's logger package: the MetaKeys registry, the         *)
(* LogWriter (Init, Write, GetEntries) over its relational store, and the  *)
(* GetEntriesFilter predicate builder.                                     *)
(*                                                                         *)
(* Nullable columns and Go pointers are sequences of length 0 (NULL, nil)  *)
(* or 1 (the value); a Go error is a string, "nil" for no error.           *)
(***************************************************************************)
EXTENDS Integers, Sequences, FiniteSets, TLC

\* ------------------------------------------------------------------ bounds

\* ids a caller passes to AddWithID are 0..MaxKeyID
MaxKeyID == 2

\* the key names callers register and records carry as extra fields
Names == {"user", "count"}

\* the key names the writer's caller interns
InternedNames == {"user"}

Null == <<>>
Some(v) == <<v>>

EmptyMap == [x \in {} |-> 0]

\* ---------------------------------------------------------------- registry

VARIABLES
    MetaKeys,   \* l.schema.MetaKeys: [Keys, namesById, maxID]
    db,         \* l.db: the committed content of the store
    now,        \* the wall clock time.Now() reads: an index into TimeLine
    ret         \* what the last call returned to its caller, with its arguments

vars == <<MetaKeys, db, now, ret>>

\* NewMetaKeys: both maps empty, maxID 0.
NewMetaKeys == [Keys |-> EmptyMap, namesById |-> EmptyMap, maxID |-> 0]

\* MetaKeys.Get: the key and whether it was found.
Get(m, name) ==
    IF name \in DOMAIN m.Keys
    THEN [key |-> Some([Name |-> name, ID |-> m.Keys[name]]), ok |-> TRUE]
    ELSE [key |-> Null, ok |-> FALSE]

\* MetaKeys.GetByID.
GetByID(m, id) ==
    IF id \notin DOMAIN m.namesById
    THEN [key |-> Null, ok |-> FALSE]
    ELSE Get(m, m.namesById[id])

\* Add as it would be without the lookup of an existing key.
AddAlways(m, name) ==
    LET key == [Name |-> name, ID |-> m.maxID]
    IN  [m |-> [Keys      |-> (name :> key.ID) @@ m.Keys,
                namesById |-> (key.ID :> name) @@ m.namesById,
                maxID     |-> m.maxID + 1],
         key |-> key]

\* MetaKeys.Add: the registry after the call and the key returned.
Add(m, name) ==
    LET got == Get(m, name)
    IN  IF got.ok
        THEN [m |-> m, key |-> got.key[1]]
        ELSE LET key == [Name |-> name, ID |-> m.maxID]
             IN  [m |-> [Keys      |-> (name :> key.ID) @@ m.Keys,
                         namesById |-> (key.ID :> name) @@ m.namesById,
                         maxID     |-> m.maxID + 1],
                  key |-> key]

\* AddWithID as it would be without the check of the id's current name.
AddWithIDNoIdCheck(m, name, id) ==
    LET got == Get(m, name)
    IN  IF got.ok
        THEN IF got.key[1].ID # id
             THEN [m |-> m, key |-> got.key, err |-> "name exists with other id"]
             ELSE [m |-> m, key |-> got.key, err |-> "nil"]
        ELSE [m |-> [Keys      |-> (name :> id) @@ m.Keys,
                     namesById |-> (id :> name) @@ m.namesById,
                     maxID     |-> (IF id > m.maxID THEN id ELSE m.maxID) + 1],
              key |-> Some([Name |-> name, ID |-> id]),
              err |-> "nil"]

\* AddWithID as it would be if a repeated registration still moved the counter.
AddWithIDBumps(m, name, id) ==
    IF id \in DOMAIN m.namesById /\ m.namesById[id] # name
    THEN [m |-> m, key |-> Null, err |-> "id exists with other name"]
    ELSE LET got == Get(m, name)
         IN  IF got.ok
             THEN IF got.key[1].ID # id
                  THEN [m |-> m, key |-> got.key, err |-> "name exists with other id"]
                  ELSE [m |-> [m EXCEPT !.maxID = @ + 1], key |-> got.key, err |-> "nil"]
             ELSE [m |-> [Keys      |-> (name :> id) @@ m.Keys,
                          namesById |-> (id :> name) @@ m.namesById,
                          maxID     |-> (IF id > m.maxID THEN id ELSE m.maxID) + 1],
                   key |-> Some([Name |-> name, ID |-> id]),
                   err |-> "nil"]

\* AddWithID as it would be without the check of the name's current id.
AddWithIDNoNameCheck(m, name, id) ==
    IF id \in DOMAIN m.namesById /\ m.namesById[id] # name
    THEN [m |-> m, key |-> Null, err |-> "id exists with other name"]
    ELSE LET got == Get(m, name)
         IN  IF got.ok /\ got.key[1].ID = id
             THEN [m |-> m, key |-> got.key, err |-> "nil"]
             ELSE [m |-> [Keys      |-> (name :> id) @@ m.Keys,
                          namesById |-> (id :> name) @@ m.namesById,
                          maxID     |-> (IF id > m.maxID THEN id ELSE m.maxID) + 1],
                   key |-> Some([Name |-> name, ID |-> id]),
                   err |-> "nil"]

\* AddWithID as it would be if the counter were not moved past the id.
AddWithIDNoAdvance(m, name, id) ==
    IF id \in DOMAIN m.namesById /\ m.namesById[id] # name
    THEN [m |-> m, key |-> Null, err |-> "id exists with other name"]
    ELSE LET got == Get(m, name)
         IN  IF got.ok
             THEN IF got.key[1].ID # id
                  THEN [m |-> m, key |-> got.key, err |-> "name exists with other id"]
                  ELSE [m |-> m, key |-> got.key, err |-> "nil"]
             ELSE [m |-> [Keys      |-> (name :> id) @@ m.Keys,
                          namesById |-> (id :> name) @@ m.namesById,
                          maxID     |-> m.maxID + 1],
                   key |-> Some([Name |-> name, ID |-> id]),
                   err |-> "nil"]

\* MetaKeys.AddWithID: the registry after the call, the key and the error.
AddWithID(m, name, id) ==
    IF id \in DOMAIN m.namesById /\ m.namesById[id] # name
    THEN [m |-> m, key |-> Null, err |-> "id exists with other name"]
    ELSE LET got == Get(m, name)
         IN  IF got.ok
             THEN IF got.key[1].ID # id
                  THEN [m |-> m, key |-> got.key, err |-> "name exists with other id"]
                  ELSE [m |-> m, key |-> got.key, err |-> "nil"]
             ELSE [m |-> [Keys      |-> (name :> id) @@ m.Keys,
                          namesById |-> (id :> name) @@ m.namesById,
                          maxID     |-> (IF id > m.maxID THEN id ELSE m.maxID) + 1],
                   key |-> Some([Name |-> name, ID |-> id]),
                   err |-> "nil"]

\* ------------------------------------------------------------------- values

\* A JSON value of a record: a number, a string, null, a boolean, or the
\* one-element array [n].
JNum(n)  == [t |-> "num",  n |-> n, s |-> ""]
JStr(s)  == [t |-> "str",  n |-> 0, s |-> s]
JNull    == [t |-> "null", n |-> 0, s |-> ""]
JBool(n) == [t |-> "bool", n |-> n, s |-> ""]
JArr(n)  == [t |-> "arr",  n |-> n, s |-> ""]

\* encoding/json's decoding of a JSON value into interface{}: every number
\* becomes a float64, null becomes the nil interface.
GoValue(j) ==
    CASE j.t = "num"  -> [go |-> "float64", n |-> j.n, s |-> ""]
      [] j.t = "str"  -> [go |-> "string",  n |-> 0,   s |-> j.s]
      [] j.t = "null" -> [go |-> "nil",     n |-> 0,   s |-> ""]
      [] j.t = "bool" -> [go |-> "bool",    n |-> j.n, s |-> ""]
      [] j.t = "arr"  -> [go |-> "[]interface{}", n |-> j.n, s |-> ""]

GoNil == [go |-> "nil", n |-> 0, s |-> ""]

\* json.Marshal of a decoded value: its JSON text.
Marshal(v) ==
    CASE v.go = "float64" -> ToString(v.n)
      [] v.go = "string"  -> "\"" \o v.s \o "\""
      [] v.go = "nil"     -> "null"
      [] v.go = "bool"    -> IF v.n = 1 THEN "true" ELSE "false"
      [] v.go = "[]interface{}" -> "[" \o ToString(v.n) \o "]"

\* ------------------------------------------------------------------- store

\* LogEntryType: the iota constants.
LogEntryTypeReal == 0
LogEntryTypeText == 1
LogEntryTypeBlob == 2
LogEntryTypeJSON == 3

\* LogEntryType.String.
TypeString(t) ==
    CASE t = LogEntryTypeReal -> "real"
      [] t = LogEntryTypeText -> "text"
      [] t = LogEntryTypeBlob -> "blob"
      [] t = LogEntryTypeJSON -> "json"
      [] OTHER -> "unknown"

\* The instants the clock passes through, in order: two within one second,
\* then the next second, then the next day.
TimeLine ==
    << [day |-> 1, sec |-> 0, frac |-> 0],
       [day |-> 1, sec |-> 0, frac |-> 5],
       [day |-> 1, sec |-> 1, frac |-> 0],
       [day |-> 2, sec |-> 0, frac |-> 0] >>

\* A store in which Init has not run: no table exists.
EmptyDB ==
    [tables           |-> {},
     log_entries      |-> {},
     log_entries_meta |-> {},
     meta_keys        |-> EmptyMap,
     type_enum        |-> EmptyMap,
     seq              |-> [log_entries |-> 0, log_entries_meta |-> 0]]

\* The sequences that enumerate a finite set, each element once: the orders in
\* which Go ranges over a map, or a store returns unordered rows.
Orders(S) ==
    {o \in [1..Cardinality(S) -> S] : \A i, j \in DOMAIN o : i # j => o[i] # o[j]}

\* ------------------------------------------------------------------- Write

\* A buffer handed to Write: a JSON document of some kind; an object has fields.
Buffer(kind, fields, len) == [kind |-> kind, fields |-> fields, len |-> len]

\* json.Unmarshal as it would be if it accepted every document.
UnmarshalLenient(p) ==
    IF p.kind = "object"
    THEN [err |-> "nil", log |-> [k \in DOMAIN p.fields |-> GoValue(p.fields[k])]]
    ELSE [err |-> "nil", log |-> EmptyMap]

\* json.Unmarshal(p, &log) with log a map[string]interface{}: an object fills
\* the map, null leaves it nil without an error, anything else is an error.
Unmarshal(p) ==
    CASE p.kind = "object" ->
            [err |-> "nil", log |-> [k \in DOMAIN p.fields |-> GoValue(p.fields[k])]]
      [] p.kind = "null" ->
            [err |-> "nil", log |-> EmptyMap]
      [] p.kind = "array" ->
            [err |-> "json: cannot unmarshal array", log |-> EmptyMap]
      [] OTHER ->
            [err |-> "json: invalid character", log |-> EmptyMap]

\* log[k]: the nil interface for a missing key.
Index(log, k) == IF k \in DOMAIN log THEN log[k] ELSE GoNil

\* database/sql refuses a slice or map argument.
BindErr(v) == v.go = "[]interface{}"

\* A bound argument as a VARCHAR column stores it (TEXT affinity).
TextColumn(v) ==
    CASE v.go = "nil"     -> Null
      [] v.go = "string"  -> Some(v.s)
      [] v.go = "float64" -> Some(ToString(v.n) \o ".0")
      [] OTHER            -> Some(ToString(v.n))

\* The error of a statement the store could not execute.
StoreErr == "store: exec failed"

\* INSERT INTO log_entries (date, level, session) ... RETURNING id, inside the
\* transaction tx: the table must exist, level is NOT NULL, the store may fail.
InsertEntry(tx, date, log, fault) ==
    LET level   == Index(log, "level")
        session == Index(log, "session")
        id      == tx.seq.log_entries + 1
    IN  IF "log_entries" \notin tx.tables
        THEN [tx |-> tx, id |-> 0, err |-> "no such table: log_entries"]
        ELSE IF BindErr(level) \/ BindErr(session)
        THEN [tx |-> tx, id |-> 0, err |-> "sql: unsupported type"]
        ELSE IF TextColumn(level) = Null
        THEN [tx |-> tx, id |-> 0, err |-> "NOT NULL constraint failed: level"]
        ELSE IF fault.at = "entry"
        THEN [tx |-> tx, id |-> 0, err |-> StoreErr]
        ELSE [tx |-> [tx EXCEPT
                        !.log_entries = @ \cup {[id      |-> id,
                                                 date    |-> date,
                                                 level   |-> TextColumn(level)[1],
                                                 session |-> TextColumn(session)]},
                        !.seq.log_entries = id],
              id |-> id, err |-> "nil"]

\* The type switch of Write: the type tag and the one value column it fills.
EncodeValue(v) ==
    CASE v.go = "float64" ->
            [type |-> LogEntryTypeReal, real_value |-> Some(v.n),
             text_value |-> Null, blob_value |-> Null, err |-> "nil"]
      [] v.go = "[]byte" ->
            [type |-> LogEntryTypeBlob, real_value |-> Null,
             text_value |-> Null, blob_value |-> Some(v.s), err |-> "nil"]
      [] v.go = "string" ->
            [type |-> LogEntryTypeText, real_value |-> Null,
             text_value |-> Some(v.s), blob_value |-> Null, err |-> "nil"]
      [] OTHER ->
            [type |-> LogEntryTypeJSON, real_value |-> Null,
             text_value |-> Null, blob_value |-> Some(Marshal(v)), err |-> "nil"]

\* The meta row as it would be if the literal name were stored with every row.
MetaRowNamed(tx, m, logEntryID, k, v) ==
    LET enc == EncodeValue(v)
        got == Get(m, k)
    IN  [id           |-> tx.seq.log_entries_meta + 1,
         log_entry_id |-> logEntryID,
         type         |-> enc.type,
         name         |-> Some(k),
         meta_key_id  |-> IF got.ok THEN Some(got.key[1].ID) ELSE Null,
         int_value    |-> Null,
         real_value   |-> enc.real_value,
         text_value   |-> enc.text_value,
         blob_value   |-> enc.blob_value]

\* One meta row of Write: the key is stored by id if the registry has it, by
\* name otherwise.
MetaRow(tx, m, logEntryID, k, v) ==
    LET enc == EncodeValue(v)
        got == Get(m, k)
    IN  [id           |-> tx.seq.log_entries_meta + 1,
         log_entry_id |-> logEntryID,
         type         |-> enc.type,
         name         |-> IF got.ok THEN Null ELSE Some(k),
         meta_key_id  |-> IF got.ok THEN Some(got.key[1].ID) ELSE Null,
         int_value    |-> Null,
         real_value   |-> enc.real_value,
         text_value   |-> enc.text_value,
         blob_value   |-> enc.blob_value]

\* The loop of Write over the record's keys from position i of the iteration
\* order: one INSERT INTO log_entries_meta per key other than level and
\* session; the first error ends the loop.
RECURSIVE InsertMetas(_, _, _, _, _, _, _, _)
InsertMetas(tx, m, logEntryID, log, order, i, n, fault) ==
    IF i > Len(order)
    THEN [tx |-> tx, err |-> "nil"]
    ELSE LET k == order[i]
         IN  IF k = "level" \/ k = "session"
             THEN InsertMetas(tx, m, logEntryID, log, order, i + 1, n, fault)
             ELSE IF EncodeValue(log[k]).err # "nil"
             THEN [tx |-> tx, err |-> EncodeValue(log[k]).err]
             ELSE IF "log_entries_meta" \notin tx.tables
             THEN [tx |-> tx, err |-> "no such table: log_entries_meta"]
             ELSE IF fault.at = "meta" /\ fault.i = n
             THEN [tx |-> tx, err |-> StoreErr]
             ELSE LET row == MetaRow(tx, m, logEntryID, k, log[k])
                  IN  InsertMetas(
                        [tx EXCEPT !.log_entries_meta = @ \cup {row},
                                   !.seq.log_entries_meta = row.id],
                        m, logEntryID, log, order, i + 1, n + 1, fault)

\* The deferred function of Write. It reads the err declared with tx at
\* Beginx; the errors of the inserts live in variables of inner scopes that
\* shadow it, and Write's results are unnamed, so what the deferred function
\* assigns to err is not returned. The store after it has run, and the err
\* it leaves behind.
Deferred(before, tx, err, fault) ==
    IF err # "nil"
    THEN [db |-> before, err |-> "nil"]                 \* tx.Rollback()
    ELSE IF fault.at = "commit"
    THEN [db |-> before, err |-> "store: commit failed"] \* tx.Commit() failed
    ELSE [db |-> tx, err |-> "nil"]                      \* tx.Commit()

\* LogWriter.Write(p) in store d with registry m at instant date, the record's
\* keys ranged over in `order`: the store afterwards, the results (n, err),
\* the local logEntryID and the err the deferred function left (deferred).
Write(d, m, date, p, order, fault) ==
    LET u == Unmarshal(p)
    IN  IF u.err # "nil"
        THEN [db |-> d, n |-> 0, err |-> u.err, logEntryID |-> 0, deferred |-> "not run"]
        ELSE IF fault.at = "begin"
        THEN [db |-> d, n |-> 0, err |-> "store: begin failed", logEntryID |-> 0,
              deferred |-> "not run"]
        ELSE LET err == "nil"         \* tx, err := l.db.Beginx()
                 e   == InsertEntry(d, date, u.log, fault)
             IN  IF e.err # "nil"
                 THEN [db |-> Deferred(d, e.tx, err, fault).db,
                       n |-> 0, err |-> e.err, logEntryID |-> e.id,
                       deferred |-> Deferred(d, e.tx, err, fault).err]
                 ELSE LET ms == InsertMetas(e.tx, m, e.id, u.log, order, 1, 1, fault)
                      IN  IF ms.err # "nil"
                          THEN [db |-> Deferred(d, ms.tx, err, fault).db,
                                n |-> 0, err |-> ms.err, logEntryID |-> e.id,
                                deferred |-> Deferred(d, ms.tx, err, fault).err]
                          ELSE [db |-> Deferred(d, ms.tx, err, fault).db,
                                n |-> p.len, err |-> "nil", logEntryID |-> e.id,
                                deferred |-> Deferred(d, ms.tx, err, fault).err]

\* -------------------------------------------------------------------- Init

\* The insert as it would be with OR IGNORE: a conflicting row stays.
InsertOrIgnore(mk, id, key) ==
    IF \E i \in DOMAIN mk : i = id \/ mk[i] = key
    THEN mk
    ELSE (id :> key) @@ mk

\* INSERT OR REPLACE INTO meta_keys (id, key): the rows with that id or (the
\* unique index) that key give way to the new row.
InsertOrReplace(mk, id, key) ==
    LET kept == {i \in DOMAIN mk : i # id /\ mk[i] # key}
    IN  [i \in kept \cup {id} |-> IF i = id THEN key ELSE mk[i]]

\* The rows of saveMetaKeys' one INSERT OR REPLACE from position i on, in the
\* order in which the registry's map was ranged over.
RECURSIVE ReplaceAll(_, _, _, _)
ReplaceAll(mk, m, order, i) ==
    IF i > Len(order)
    THEN mk
    ELSE ReplaceAll(InsertOrReplace(mk, m.Keys[order[i]], order[i]), m, order, i + 1)

\* saveMetaKeys as it would be if it emptied meta_keys before the insert.
SaveMetaKeysFresh(d, m, order) ==
    IF Cardinality(DOMAIN m.Keys) > 0
    THEN [d EXCEPT !.meta_keys = ReplaceAll(EmptyMap, m, order, 1)]
    ELSE d

\* LogWriter.saveMetaKeys (saveSchema): nothing is executed for an empty registry.
SaveMetaKeys(d, m, order) ==
    IF Cardinality(DOMAIN m.Keys) > 0
    THEN [d EXCEPT !.meta_keys = ReplaceAll(@, m, order, 1)]
    ELSE d

\* LogWriter.createTypeEnumTable: create if not exists, insert or ignore.
CreateTypeEnumTable(d) ==
    LET rows == ("real" :> LogEntryTypeReal) @@ ("text" :> LogEntryTypeText)
                @@ ("blob" :> LogEntryTypeBlob) @@ ("json" :> LogEntryTypeJSON)
    IN  [d EXCEPT !.tables = @ \cup {"type_enum"},
                  !.type_enum = @ @@ rows]

\* The loop of loadMetaKeys over the rows of meta_keys from position i on:
\* AddWithID for each, the first error ends it.
RECURSIVE LoadRows(_, _, _, _)
LoadRows(m, mk, order, i) ==
    IF i > Len(order)
    THEN [m |-> m, err |-> "nil"]
    ELSE LET r == AddWithID(m, mk[order[i]], order[i])
         IN  IF r.err # "nil"
             THEN [m |-> r.m, err |-> r.err]
             ELSE LoadRows(r.m, mk, order, i + 1)

\* LogWriter.loadMetaKeys (loadSchema): a new registry replaces the one in
\* memory and is filled from the rows of meta_keys, in the order the store
\* returns them.
LoadMetaKeys(d, order) == LoadRows(NewMetaKeys, d.meta_keys, order, 1)

\* LogWriter.Init: create the tables, save the registry, create the type
\* table, load the registry back.
InitWriter(d, m, saveOrder, loadOrder) ==
    LET d1 == [d EXCEPT !.tables = @ \cup {"log_entries", "log_entries_meta", "meta_keys"}]
        d2 == SaveMetaKeys(d1, m, saveOrder)
        d3 == CreateTypeEnumTable(d2)
        ld == LoadMetaKeys(d3, loadOrder)
    IN  [db |-> d3, m |-> ld.m, err |-> ld.err]

\* ------------------------------------------------------------------ filter

\* time.Time's zero value, and Time.IsZero.
ZeroTime == [day |-> 0, sec |-> 0, frac |-> 0]
IsZero(t) == t = ZeroTime

\* A text as the sequence of its characters' codes, and the byte-wise order in
\* which the store compares two texts: a <= b.
RECURSIVE TextLE(_, _)
TextLE(a, b) ==
    IF a = <<>> THEN TRUE
    ELSE IF b = <<>> THEN FALSE
    ELSE IF Head(a) # Head(b) THEN Head(a) < Head(b)
    ELSE TextLE(Tail(a), Tail(b))

\* The characters that tell the two layouts of an instant apart.
CharSpace == 32
CharPlus  == 43
CharDot   == 46
CharT     == 84
CharZ     == 90

\* The text of the instant Write binds to the date column: the sqlite3 driver
\* formats a time.Time as "2006-01-02 15:04:05.999999999-07:00". The date and
\* the seconds of the day stand for their digits.
DateColumnText(t) ==
    <<t.day, CharSpace, t.sec>>
    \o (IF t.frac = 0 THEN <<>> ELSE <<CharDot, t.frac>>) \o <<CharPlus>>

\* Time.Format(time.RFC3339), "2006-01-02T15:04:05Z07:00", of a UTC instant:
\* no fraction of the second.
FormatRFC3339(t) == <<t.day, CharT, t.sec, CharZ>>

\* GetEntriesFilter and NewGetEntriesFilter(): every criterion at its zero value.
NewGetEntriesFilter ==
    [Level |-> "", Session |-> "", From |-> ZeroTime, To |-> ZeroTime,
     SelectedMetaKeys |-> <<>>, MetaFilters |-> EmptyMap]

\* ToLogEntryType.
ToLogEntryType(v) ==
    CASE v.go \in {"float32", "float64", "int", "int8", "int16", "int32", "int64",
                   "uint", "uint8", "uint16", "uint32", "uint64"} -> LogEntryTypeReal
      [] v.go = "string" -> LogEntryTypeText
      [] v.go = "[]byte" -> LogEntryTypeBlob
      [] OTHER -> LogEntryTypeJSON

\* The expressions sqlbuilder composes: a comparison of a column, written as
\* in the SQL text (qualifier, name), with an argument; And and Or of a list.
Column(tbl, col) == [tbl |-> tbl, col |-> col]
Cmp(op, c, val)  == [e |-> "cmp", op |-> op, c |-> c, val |-> val, args |-> <<>>]
And(args)        == [e |-> "and", op |-> "", c |-> Column("", ""), val |-> 0, args |-> args]
Or(args)         == [e |-> "or",  op |-> "", c |-> Column("", ""), val |-> 0, args |-> args]

\* From position i of SelectedMetaKeys on: the keys the registry does not
\* have (stringKeys) and the ids of those it has (intKeys).
RECURSIVE StringKeys(_, _, _)
StringKeys(m, keys, i) ==
    IF i > Len(keys) THEN <<>>
    ELSE (IF Get(m, keys[i]).ok THEN <<>> ELSE <<keys[i]>>) \o StringKeys(m, keys, i + 1)

RECURSIVE IntKeys(_, _, _)
IntKeys(m, keys, i) ==
    IF i > Len(keys) THEN <<>>
    ELSE (IF Get(m, keys[i]).ok THEN <<Get(m, keys[i]).key[1].ID>> ELSE <<>>)
         \o IntKeys(m, keys, i + 1)

\* The selectedMetaKeys branch of Apply: one Where of the Or of an IN per key.
SelectedKeysWhere(m, keys) ==
    LET sk    == StringKeys(m, keys, 1)
        ik    == IntKeys(m, keys, 1)
        exprs == [i \in 1..Len(sk) |-> Cmp("IN", Column("mk", "name"), sk[i])]
                 \o [i \in 1..Len(ik) |-> Cmp("IN", Column("mk", "meta_key_id"), ik[i])]
    IN  IF Len(keys) > 0 /\ Len(exprs) > 0 THEN <<Or(exprs)>> ELSE <<>>

\* The metaFilters branch of Apply from position i of the map's iteration
\* order on: for each pair, one Where of the Or of its conditions.
RECURSIVE MetaFiltersWhere(_, _, _, _)
MetaFiltersWhere(m, filters, order, i) ==
    IF i > Len(order) THEN <<>>
    ELSE LET k         == order[i]
             v         == filters[k]
             got       == Get(m, k)
             fieldName == TypeString(ToLogEntryType(v)) \o "_value"
             exprs     == <<And(<<Cmp("=", Column("mk", "name"), k),
                                  Cmp("=", Column("lem", fieldName), v)>>)>>
                          \o (IF got.ok
                              THEN <<And(<<Cmp("=", Column("mk", "meta_key_id"), got.key[1].ID),
                                           Cmp("=", Column("lem", fieldName), v)>>)>>
                              ELSE <<>>)
         IN  <<Or(exprs)>> \o MetaFiltersWhere(m, filters, order, i + 1)

\* GetEntriesFilter.Apply: the expressions it hands to q.Where, one after the
\* other; the query is the conjunction of them.
Apply(gef, m, order) ==
    (IF gef.Level # "" THEN <<Cmp("=", Column("", "level"), gef.Level)>> ELSE <<>>)
    \o (IF gef.Session # "" THEN <<Cmp("=", Column("", "session"), gef.Session)>> ELSE <<>>)
    \o (IF ~IsZero(gef.From)
        THEN <<Cmp(">=", Column("", "date"), FormatRFC3339(gef.From))>> ELSE <<>>)
    \o (IF ~IsZero(gef.To)
        THEN <<Cmp("<=", Column("", "date"), FormatRFC3339(gef.To))>> ELSE <<>>)
    \o SelectedKeysWhere(m, gef.SelectedMetaKeys)
    \o (IF Cardinality(DOMAIN gef.MetaFilters) > 0
        THEN MetaFiltersWhere(m, gef.MetaFilters, order, 1) ELSE <<>>)

\* -------------------------------------------------------------- GetEntries

\* The column references of an expression.
RECURSIVE Refs(_)
Refs(x) ==
    IF x.e = "cmp" THEN {x.c}
    ELSE UNION {Refs(x.args[i]) : i \in 1..Len(x.args)}

\* The primary query is SELECT * FROM log_entries WHERE ... ORDER BY id ASC:
\* log_entries is its only table, under no alias, so these are the columns a
\* WHERE expression can name; the store rejects the statement for any other.
PrimaryColumns ==
    {Column("", c) : c \in {"id", "date", "level", "session"}}

PrimaryQueryErr(d, wheres) ==
    IF "log_entries" \notin d.tables
    THEN "no such table: log_entries"
    ELSE IF \E i \in 1..Len(wheres) : ~(Refs(wheres[i]) \subseteq PrimaryColumns)
    THEN "no such column"
    ELSE "nil"

\* The value of a WHERE expression over a row of log_entries. A comparison
\* with NULL is not true; the date column holds the text Write bound.
RECURSIVE Holds(_, _)
Holds(x, row) ==
    CASE x.e = "and" -> \A i \in 1..Len(x.args) : Holds(x.args[i], row)
      [] x.e = "or"  -> \E i \in 1..Len(x.args) : Holds(x.args[i], row)
      [] x.c.col = "level"   -> row.level = x.val
      [] x.c.col = "session" -> row.session # Null /\ row.session[1] = x.val
      [] x.c.col = "date" /\ x.op = ">=" -> TextLE(x.val, DateColumnText(row.date))
      [] x.c.col = "date" /\ x.op = "<=" -> TextLE(DateColumnText(row.date), x.val)
      [] OTHER -> FALSE

\* The primary query as it would be if it were joined with the meta rows: an
\* entry without a meta row is not returned.
PrimaryRowsJoined(d, wheres) ==
    {row \in d.log_entries :
        /\ \A i \in 1..Len(wheres) : Holds(wheres[i], row)
        /\ \E lem \in d.log_entries_meta : lem.log_entry_id = row.id}

\* The rows the primary query returns.
PrimaryRows(d, wheres) ==
    {row \in d.log_entries : \A i \in 1..Len(wheres) : Holds(wheres[i], row)}

\* The second query: the rows of log_entries_meta of the matched entries,
\* LEFT JOINed with meta_keys on the row's meta_key_id (meta_key).
MetaQueryErr(d) ==
    IF "log_entries_meta" \notin d.tables THEN "no such table: log_entries_meta"
    ELSE IF "meta_keys" \notin d.tables THEN "no such table: meta_keys"
    ELSE "nil"

JoinedRow(d, lem) ==
    [lem      |-> lem,
     meta_key |-> IF lem.meta_key_id # Null /\ lem.meta_key_id[1] \in DOMAIN d.meta_keys
                  THEN Some(d.meta_keys[lem.meta_key_id[1]])
                  ELSE Null]

MetaRows(d, ids) ==
    {JoinedRow(d, lem) : lem \in {r \in d.log_entries_meta : r.log_entry_id \in ids}}

\* The decoded values json.Unmarshal can give back for a stored JSON text.
GoJSONValues ==
    {GoValue(j) : j \in {JNull, JBool(0), JBool(1), JNum(3), JStr("u1"), JArr(3)}}

\* json.Unmarshal of a JSON text into interface{}: the value whose text it is.
UnmarshalValue(text) ==
    IF \E v \in GoJSONValues : Marshal(v) = text
    THEN [v |-> CHOOSE v \in GoJSONValues : Marshal(v) = text, err |-> "nil"]
    ELSE [v |-> GoNil, err |-> "json: invalid character"]

\* Value as it would be if an unset slot or an unknown tag gave no value and
\* no error.
ValueOrNothing(lem) ==
    CASE lem.type = LogEntryTypeReal /\ lem.real_value # Null ->
            [v |-> [go |-> "float64", n |-> lem.real_value[1], s |-> ""], err |-> "nil"]
      [] lem.type = LogEntryTypeText /\ lem.text_value # Null ->
            [v |-> [go |-> "string", n |-> 0, s |-> lem.text_value[1]], err |-> "nil"]
      [] lem.type = LogEntryTypeJSON /\ lem.blob_value # Null ->
            UnmarshalValue(lem.blob_value[1])
      [] lem.type = LogEntryTypeBlob /\ lem.blob_value # Null ->
            [v |-> [go |-> "[]byte", n |-> 0, s |-> lem.blob_value[1]], err |-> "nil"]
      [] OTHER -> [v |-> GoNil, err |-> "nil"]

\* LogEntryMeta.Value: the slot the type tag selects, an error if it is unset.
Value(lem) ==
    CASE lem.type = LogEntryTypeReal ->
            IF lem.real_value = Null
            THEN [v |-> GoNil, err |-> "real value is nil"]
            ELSE [v |-> [go |-> "float64", n |-> lem.real_value[1], s |-> ""], err |-> "nil"]
      [] lem.type = LogEntryTypeText ->
            IF lem.text_value = Null
            THEN [v |-> GoNil, err |-> "text value is nil"]
            ELSE [v |-> [go |-> "string", n |-> 0, s |-> lem.text_value[1]], err |-> "nil"]
      [] lem.type = LogEntryTypeJSON ->
            IF lem.blob_value = Null
            THEN [v |-> GoNil, err |-> "blob value is nil"]
            ELSE UnmarshalValue(lem.blob_value[1])
      [] lem.type = LogEntryTypeBlob ->
            IF lem.blob_value = Null
            THEN [v |-> GoNil, err |-> "blob value is nil"]
            ELSE [v |-> [go |-> "[]byte", n |-> 0, s |-> lem.blob_value[1]], err |-> "nil"]
      [] OTHER -> [v |-> GoNil, err |-> "unknown type"]

\* The name under which the loop of GetEntries attaches a row's value: the
\* row's own name, else the joined meta_key, else none (the row is skipped).
DisplayName(jr) ==
    IF jr.lem.name # Null THEN jr.lem.name
    ELSE IF jr.meta_key # Null THEN jr.meta_key
    ELSE Null

\* The rows of an entry that the loop attaches: a nil value or an unresolved
\* name skips the row.
Attached(rows, id) ==
    {jr \in rows : /\ jr.lem.log_entry_id = id
                   /\ Value(jr.lem).v # GoNil
                   /\ DisplayName(jr) # Null}

\* The meta mappings the loop can leave in an entry: entry.Meta[name] = v for
\* each attached row, in the order the store returned the rows, so that of
\* two rows with one name the later wins.
MetaMaps(rows, id) ==
    LET att   == Attached(rows, id)
        names == {DisplayName(jr)[1] : jr \in att}
        cand(n) == {Value(jr.lem).v : jr \in {x \in att : DisplayName(x)[1] = n}}
    IN  {f \in [names -> UNION {cand(n) : n \in names}] : \A n \in names : f[n] \in cand(n)}

\* sort.Slice(ret, by ID): insertion of each element in its place.
RECURSIVE InsertByID(_, _)
InsertByID(sorted, x) ==
    IF sorted = <<>> THEN <<x>>
    ELSE IF x.ID < Head(sorted).ID THEN <<x>> \o sorted
    ELSE <<Head(sorted)>> \o InsertByID(Tail(sorted), x)

RECURSIVE SortByIDFrom(_, _)
SortByIDFrom(s, i) ==
    IF i > Len(s) THEN <<>> ELSE InsertByID(SortByIDFrom(s, i + 1), s[i])

\* The list as it would be returned without the sort.
Unsorted(s) == s

SortByID(s) == SortByIDFrom(s, 1)

\* LogWriter.GetEntries(filter): every outcome it can have, over the orders
\* in which Go ranges over the entries map and over the meta mappings the
\* store's row order allows.
GetEntries(d, m, gef, filterOrder) ==
    LET wheres == Apply(gef, m, filterOrder)
        perr   == PrimaryQueryErr(d, wheres)
    IN  IF perr # "nil"
        THEN {[entries |-> <<>>, err |-> perr]}
        ELSE LET matched == PrimaryRows(d, wheres)
                 ids     == {row.id : row \in matched}
                 rows    == MetaRows(d, ids)
                 bad     == {jr \in rows : Value(jr.lem).err # "nil"}
                 maps    == UNION {MetaMaps(rows, id) : id \in ids}
             IN  IF MetaQueryErr(d) # "nil"
                 THEN {[entries |-> <<>>, err |-> MetaQueryErr(d)]}
                 ELSE IF bad # {}
                 THEN {[entries |-> <<>>, err |-> Value(jr.lem).err] : jr \in bad}
                 ELSE {[entries |->
                          SortByID([i \in 1..Len(order) |->
                              [ID      |-> order[i].id,
                               Date    |-> order[i].date,
                               Level   |-> order[i].level,
                               Session |-> order[i].session,
                               Meta    |-> meta[order[i].id]]]),
                        err |-> "nil"] :
                       order \in Orders(matched),
                       meta \in {a \in [ids -> maps] : \A id \in ids : a[id] \in MetaMaps(rows, id)}}

\* ----------------------------------------------------------------- actions

\* the number of log_entries rows the model lets Write insert
MaxEntries == 2

\* the faults the store can raise during one Write: none, or one at a step
\* (the i-th insert into log_entries_meta for "meta")
Faults ==
    {[at |-> "none", i |-> 0], [at |-> "begin", i |-> 0], [at |-> "entry", i |-> 0],
     [at |-> "meta", i |-> 1], [at |-> "meta", i |-> 2], [at |-> "commit", i |-> 0]}

NoFault == [at |-> "none", i |-> 0]

\* The buffers a producer hands over.
BufExample ==
    Buffer("object", ("level" :> JStr("info")) @@ ("session" :> JStr("s1"))
                     @@ ("user" :> JStr("u1")) @@ ("count" :> JNum(3)), 52)
BufNullField ==
    Buffer("object", ("level" :> JStr("error")) @@ ("user" :> JNull), 29)
BufNested ==
    Buffer("object", ("level" :> JStr("error")) @@ ("session" :> JStr("s1"))
                     @@ ("count" :> JArr(3)), 44)
BufNoLevel ==
    Buffer("object", ("session" :> JStr("s1")) @@ ("user" :> JStr("u1")), 28)
BufPlain   == Buffer("object", ("level" :> JStr("info")), 16)
BufNull    == Buffer("null", EmptyMap, 4)
BufArray   == Buffer("array", EmptyMap, 5)
BufGarbage == Buffer("garbage", EmptyMap, 7)

Buffers ==
    {BufExample, BufNullField, BufNested, BufNoLevel, BufPlain,
     BufNull, BufArray, BufGarbage}

AddAction(name) ==
    /\ MetaKeys' = Add(MetaKeys, name).m
    /\ ret' = [op |-> "Add", name |-> name, key |-> Add(MetaKeys, name).key,
               ok |-> Get(MetaKeys, name).ok]
    /\ UNCHANGED <<db, now>>

AddWithIDAction(name, id) ==
    LET r == AddWithID(MetaKeys, name, id)
    IN  /\ MetaKeys' = r.m
        /\ ret' = [op |-> "AddWithID", name |-> name, id |-> id,
                   key |-> r.key, err |-> r.err, ok |-> Get(MetaKeys, name).ok]
        /\ UNCHANGED <<db, now>>

InitAction ==
    \E saveOrder \in Orders(DOMAIN MetaKeys.Keys) :
        LET d3 == InitWriter(db, MetaKeys, saveOrder, <<>>).db
        IN  \E loadOrder \in Orders(DOMAIN d3.meta_keys) :
                LET r == InitWriter(db, MetaKeys, saveOrder, loadOrder)
                IN  /\ db' = r.db
                    /\ MetaKeys' = r.m
                    /\ ret' = [op |-> "Init", err |-> r.err]
                    /\ UNCHANGED now

\* The registry with the keys of `order` from position i on interned.
RECURSIVE AddAll(_, _, _)
AddAll(m, order, i) ==
    IF i > Len(order) THEN m ELSE AddAll(Add(m, order[i]).m, order, i + 1)

\* Write as it would be if it interned the keys of the record it stores.
WriteActionInterning(p, fault, advance) ==
    /\ db.seq.log_entries < MaxEntries
    /\ now + advance <= Len(TimeLine)
    /\ \E order \in Orders(DOMAIN Unmarshal(p).log \ {"level", "session"}) :
           LET r == Write(db, MetaKeys, TimeLine[now + advance], p, order, fault)
           IN  /\ db' = r.db
               /\ ret' = [op |-> "Write", p |-> p, n |-> r.n, err |-> r.err,
                          logEntryID |-> r.logEntryID, deferred |-> r.deferred]
               /\ MetaKeys' = IF r.err = "nil" THEN AddAll(MetaKeys, order, 1) ELSE MetaKeys
    /\ now' = now + advance

\* Write(p) at an instant `advance` steps of TimeLine after the last one read.
\* The keys level and session are skipped by the loop wherever they come in
\* the iteration order, so the order of the other keys is what is chosen.
WriteAction(p, fault, advance) ==
    /\ db.seq.log_entries < MaxEntries
    /\ now + advance <= Len(TimeLine)
    /\ \E order \in Orders(DOMAIN Unmarshal(p).log \ {"level", "session"}) :
           LET r == Write(db, MetaKeys, TimeLine[now + advance], p, order, fault)
           IN  /\ db' = r.db
               /\ ret' = [op |-> "Write", p |-> p, n |-> r.n, err |-> r.err,
                          logEntryID |-> r.logEntryID, deferred |-> r.deferred]
    /\ now' = now + advance
    /\ UNCHANGED MetaKeys

GetEntriesAction(gef) ==
    /\ \E filterOrder \in Orders(DOMAIN gef.MetaFilters) :
           \E r \in GetEntries(db, MetaKeys, gef, filterOrder) :
               ret' = [op |-> "GetEntries", filter |-> gef,
                       entries |-> r.entries, err |-> r.err]
    /\ UNCHANGED <<MetaKeys, db, now>>

Init ==
    /\ MetaKeys = NewMetaKeys
    /\ db = EmptyDB
    /\ now = 1
    /\ ret = [op |-> "none"]

\* The registry alone: callers interning keys and reloading persisted ones.
NextRegistry ==
    \/ \E name \in Names : AddAction(name)
    \/ \E name \in Names, id \in 0..MaxKeyID : AddWithIDAction(name, id)

SpecRegistry == Init /\ [][NextRegistry]_vars

\* The writer: a caller that interns one of the keys, initialises the store,
\* writes records and reads them all back.
Next ==
    \/ \E name \in InternedNames : AddAction(name)
    \/ InitAction
    \/ \E p \in Buffers, fault \in Faults : WriteAction(p, fault, 0)
    \/ GetEntriesAction(NewGetEntriesFilter)

Spec == Init /\ [][Next]_vars

\* The writer under every registry its caller can build: keys interned with
\* Add or registered under a chosen id, before and after Init, and records
\* written under store faults.
NextWrite ==
    \/ \E name \in InternedNames : AddAction(name)
    \/ \E name \in InternedNames, id \in 0..MaxKeyID : AddWithIDAction(name, id)
    \/ InitAction
    \/ \E p \in Buffers, fault \in Faults : WriteAction(p, fault, 0)

SpecWrite == Init /\ [][NextWrite]_vars

\* NewLogWriter(db, NewSchema()): another writer is opened on the same store
\* with a new, empty registry.
NewLogWriterAction ==
    /\ MetaKeys' = NewMetaKeys
    /\ ret' = [op |-> "NewLogWriter"]
    /\ UNCHANGED <<db, now>>

\* Initialisation over the life of a store: writers opened on it one after
\* the other, each with a registry its caller builds, each running Init any
\* number of times and writing plain records.
NextInit ==
    \/ \E name \in Names : AddAction(name)
    \/ \E name \in Names, id \in 0..MaxKeyID : AddWithIDAction(name, id)
    \/ NewLogWriterAction
    \/ InitAction
    \/ WriteAction(BufPlain, NoFault, 0)

SpecInit == Init /\ [][NextInit]_vars

\* A type tag that is none of the LogEntryType constants.
LogEntryTypeUnknown == 4

\* The rows of log_entries_meta that Write does not produce and the table
\* definition admits: every value column is nullable, and type is any integer.
\* A row of entry id e with tag t, no value slot set, its key stored by name.
ForeignMetaRow(d, e, t) ==
    [id           |-> d.seq.log_entries_meta + 1,
     log_entry_id |-> e,
     type         |-> t,
     name         |-> Some("user"),
     meta_key_id  |-> Null,
     int_value    |-> Null,
     real_value   |-> Null,
     text_value   |-> Null,
     blob_value   |-> Null]

\* The type tags of the rows another program leaves behind.
ForeignTypes == {LogEntryTypeReal, LogEntryTypeJSON, LogEntryTypeUnknown}

\* Another program sharing the store inserts such a row for an entry that has
\* none of them yet.
ForeignRowAction(e, t) ==
    /\ "log_entries_meta" \in db.tables
    /\ \E x \in db.log_entries : x.id = e
    /\ ~\E r \in db.log_entries_meta :
          r.log_entry_id = e /\ r.real_value = Null /\ r.text_value = Null /\ r.blob_value = Null
    /\ db' = [db EXCEPT !.log_entries_meta = @ \cup {ForeignMetaRow(db, e, t)},
                        !.seq.log_entries_meta = @ + 1]
    /\ ret' = [op |-> "ForeignRow"]
    /\ UNCHANGED <<MetaKeys, now>>

\* The filters of the decoding reads: none, or a level.
LevelFilters ==
    {NewGetEntriesFilter, [NewGetEntriesFilter EXCEPT !.Level = "error"]}

\* Reading a store that holds records with unset fields and rows that other
\* programs wrote.
NextRead ==
    \/ InitAction
    \/ \E p \in {BufExample, BufNullField, BufPlain} : WriteAction(p, NoFault, 0)
    \/ \E e \in 1..MaxEntries, t \in ForeignTypes : ForeignRowAction(e, t)
    \/ \E gef \in LevelFilters : GetEntriesAction(gef)

SpecRead == Init /\ [][NextRead]_vars

\* The reader: records written at instants along TimeLine, then filtered reads.
TimeBounds == {ZeroTime} \cup {TimeLine[i] : i \in 1..Len(TimeLine)}

RangeFilters ==
    {[NewGetEntriesFilter EXCEPT !.From = from, !.To = to] :
        from \in TimeBounds, to \in TimeBounds} \ {NewGetEntriesFilter}

KeyFilters ==
    {[NewGetEntriesFilter EXCEPT !.SelectedMetaKeys = keys] :
        keys \in {<<"user">>, <<"count">>, <<"user", "count">>}}

ValueFilters ==
    {[NewGetEntriesFilter EXCEPT !.MetaFilters = f] :
        f \in {("user" :> GoValue(JStr("u1"))),
               ("user" :> GoValue(JBool(1))),
               ("user" :> GoValue(JStr("u1"))) @@ ("count" :> GoValue(JNum(3)))}}

Filters ==
    {NewGetEntriesFilter, [NewGetEntriesFilter EXCEPT !.Level = "error"],
     [NewGetEntriesFilter EXCEPT !.Session = "s1"]}
    \cup RangeFilters \cup KeyFilters \cup ValueFilters

NextFilter ==
    \/ \E name \in InternedNames : AddAction(name)
    \/ InitAction
    \/ \E p \in {BufExample, BufNullField}, advance \in {0, 1} : WriteAction(p, NoFault, advance)
    \/ \E gef \in Filters : GetEntriesAction(gef)

SpecFilter == Init /\ [][NextFilter]_vars

\* ------------------------------------------------------------------ claims

\* The store's tables exist: Init has run.
Initialised == {"log_entries", "log_entries_meta", "meta_keys"} \subseteq db.tables

\* The ids of the entries a read returned.
ReturnedIDs == {ret.entries[i].ID : i \in 1..Len(ret.entries)}

\* Something of the record of the last Write is in the store.
RecordPersisted ==
    \/ \E e \in db.log_entries : e.id = ret.logEntryID
    \/ \E r \in db.log_entries_meta : r.log_entry_id = ret.logEntryID

\* C1: a Write that fails after its transaction was opened leaves neither the
\* entry row nor any meta row of its record in the store.
C1_FailedWriteLeavesNothing ==
    (ret.op = "Write" /\ ret.err # "nil" /\ ret.deferred # "not run")
        => ~RecordPersisted

\* C2: Write returns success only if the record's transaction was committed:
\* a failed commit is reported as an error, and after a success the entry is
\* in the store.
C2_SuccessOnlyIfCommitted ==
    ret.op = "Write" =>
        /\ ret.deferred = "store: commit failed" => ret.err # "nil"
        /\ ret.err = "nil" => \E e \in db.log_entries : e.id = ret.logEntryID

\* The extra fields of a buffer's record as Write decoded them.
Extras(p) ==
    [k \in DOMAIN p.fields \ {"level", "session"} |-> GoValue(p.fields[k])]

\* C3: round trip. An unfiltered GetEntries right after a Write of a record
\* that returned success and was committed succeeds and returns the entry of
\* that record with the written level and session and with a meta mapping
\* equal to the record's extra fields (numbers as float64).
C3_RoundTrip ==
    [][(/\ ret.op = "Write" /\ ret.err = "nil" /\ ret.deferred = "nil"
        /\ ret.p.kind = "object"
        /\ ret'.op = "GetEntries" /\ ret'.filter = NewGetEntriesFilter)
       => /\ ret'.err = "nil"
          /\ \E i \in 1..Len(ret'.entries) :
                /\ ret'.entries[i].ID = ret.logEntryID
                /\ ret'.entries[i].Level = ret.p.fields["level"].s
                /\ ret'.entries[i].Session =
                      (IF "session" \in DOMAIN ret.p.fields
                       THEN Some(ret.p.fields["session"].s) ELSE Null)
                /\ ret'.entries[i].Meta = Extras(ret.p)]_vars

\* C4: a successful unfiltered GetEntries returns every persisted entry
\* exactly once, strictly ascending by id, whatever order the entries map
\* was ranged over in.
C4_ReadSortedAndComplete ==
    (ret.op = "GetEntries" /\ ret.filter = NewGetEntriesFilter /\ ret.err = "nil")
        => /\ \A i, j \in 1..Len(ret.entries) :
                i < j => ret.entries[i].ID < ret.entries[j].ID
           /\ ReturnedIDs = {e.id : e \in db.log_entries}
           /\ Len(ret.entries) = Cardinality(db.log_entries)

C4_Witness ==
    /\ ret.op = "GetEntries" /\ ret.filter = NewGetEntriesFilter /\ ret.err = "nil"
    /\ Len(ret.entries) >= 2

\* A buffer that does not hold a key/value mapping, and the errors of decoding.
Malformed(p) == p.kind \notin {"object", "null"}
DecodeErrors == {"json: cannot unmarshal array", "json: invalid character"}

\* C5: Write of a buffer that cannot be parsed returns a decode error and
\* leaves the store (entry table, meta table, every other table) and the
\* registry as they were.
C5_MalformedWritesNothing ==
    [][(ret'.op = "Write" /\ Malformed(ret'.p))
       => /\ ret'.err \in DecodeErrors
          /\ ret'.n = 0
          /\ db' = db
          /\ MetaKeys' = MetaKeys]_vars

C5_Witness ==
    /\ ret.op = "Write" /\ Malformed(ret.p) /\ ret.err \in DecodeErrors
    /\ db.log_entries # {} /\ db.log_entries_meta # {}

\* The meta rows whose key is one of the names K: by literal name, or by the
\* id under which the registry interned the name.
RowsKeyed(K) ==
    {r \in db.log_entries_meta :
        \/ r.name # Null /\ r.name[1] \in K
        \/ /\ r.meta_key_id # Null
           /\ \E k \in K \cap DOMAIN MetaKeys.Keys : MetaKeys.Keys[k] = r.meta_key_id[1]}

\* The names in a sequence of key names.
KeySet(keys) == {keys[i] : i \in 1..Len(keys)}

\* C6: with the tables in place, GetEntries with a non-empty selectedMetaKeys
\* (and no other criterion) succeeds and returns exactly the entries that
\* have a meta row keyed by one of the names.
C6_SelectedKeysFilter ==
    (/\ ret.op = "GetEntries" /\ Initialised
     /\ Len(ret.filter.SelectedMetaKeys) > 0
     /\ ret.filter = [NewGetEntriesFilter EXCEPT
                        !.SelectedMetaKeys = ret.filter.SelectedMetaKeys])
        => /\ ret.err = "nil"
           /\ ReturnedIDs = {e.id : e \in {x \in db.log_entries :
                                \E r \in RowsKeyed(KeySet(ret.filter.SelectedMetaKeys)) :
                                    r.log_entry_id = x.id}}

\* The typed value of a meta row equals an expected value: the column the
\* classification rule gives the value's kind holds it.
RowHolds(r, v) ==
    CASE ToLogEntryType(v) = LogEntryTypeReal -> r.real_value = Some(v.n)
      [] ToLogEntryType(v) = LogEntryTypeText -> r.text_value = Some(v.s)
      [] OTHER -> r.blob_value = Some(Marshal(v))

\* C7: with the tables in place, GetEntries with several metaFilters pairs
\* (and no other criterion) succeeds and returns exactly the entries of which
\* at least one pair is matched by a meta row.
C7_MetaFiltersAreOred ==
    (/\ ret.op = "GetEntries" /\ Initialised
     /\ Cardinality(DOMAIN ret.filter.MetaFilters) >= 2
     /\ ret.filter = [NewGetEntriesFilter EXCEPT !.MetaFilters = ret.filter.MetaFilters])
        => /\ ret.err = "nil"
           /\ ReturnedIDs = {e.id : e \in {x \in db.log_entries :
                                \E k \in DOMAIN ret.filter.MetaFilters :
                                    \E r \in RowsKeyed({k}) :
                                        /\ r.log_entry_id = x.id
                                        /\ RowHolds(r, ret.filter.MetaFilters[k])}}

\* Instant a is not after instant b.
TimeLE(a, b) ==
    \/ a.day < b.day
    \/ a.day = b.day /\ a.sec < b.sec
    \/ a.day = b.day /\ a.sec = b.sec /\ a.frac <= b.frac

\* C8: with the tables in place, GetEntries with from and/or to (and no other
\* criterion) returns exactly the entries whose date d has from <= d <= to,
\* an omitted bound not constraining its side.
C8_DateRangeInclusive ==
    (/\ ret.op = "GetEntries" /\ Initialised
     /\ ret.filter \in RangeFilters)
        => /\ ret.err = "nil"
           /\ ReturnedIDs = {e.id : e \in {x \in db.log_entries :
                                /\ IsZero(ret.filter.From) \/ TimeLE(ret.filter.From, x.date)
                                /\ IsZero(ret.filter.To) \/ TimeLE(x.date, ret.filter.To)}}

\* C9: Add of a registered name returns the existing key and changes nothing
\* in the registry, so that a second Add of a name returns what the first
\* did; Add of an unregistered name registers the pair it returns in both
\* directions.
C9_AddIdempotent ==
    [][ret'.op = "Add"
       => /\ IF ret'.name \in DOMAIN MetaKeys.Keys
             THEN /\ MetaKeys' = MetaKeys
                  /\ ret'.key = [Name |-> ret'.name, ID |-> MetaKeys.Keys[ret'.name]]
             ELSE /\ ret'.key.Name = ret'.name
                  /\ ret'.name \in DOMAIN MetaKeys'.Keys
                  /\ MetaKeys'.Keys[ret'.name] = ret'.key.ID
                  /\ ret'.key.ID \in DOMAIN MetaKeys'.namesById
                  /\ MetaKeys'.namesById[ret'.key.ID] = ret'.name
          /\ (ret.op = "Add" /\ ret.name = ret'.name)
                => (ret'.key = ret.key /\ MetaKeys' = MetaKeys)]_vars

C9_Witness ==
    /\ ret.op = "Add" /\ ret.ok
    /\ Cardinality(DOMAIN MetaKeys.Keys) >= 2

\* C10: AddWithID(name, id) with id bound to another name, or name bound to
\* another id, returns an error and leaves the registry (both maps and the
\* counter) as it was.
C10_AddWithIDConflict ==
    [][(/\ ret'.op = "AddWithID"
        /\ \/ /\ ret'.id \in DOMAIN MetaKeys.namesById
              /\ MetaKeys.namesById[ret'.id] # ret'.name
           \/ /\ ret'.name \in DOMAIN MetaKeys.Keys
              /\ MetaKeys.Keys[ret'.name] # ret'.id)
       => /\ ret'.err # "nil"
          /\ MetaKeys' = MetaKeys]_vars

C10_Witness ==
    /\ ret.op = "AddWithID"
    /\ ret.err = "id exists with other name"
    /\ ret.name \notin DOMAIN MetaKeys.Keys

OneToOne(m) ==
    /\ \A n \in DOMAIN m.Keys :
          m.Keys[n] \in DOMAIN m.namesById /\ m.namesById[m.Keys[n]] = n
    /\ \A i \in DOMAIN m.namesById :
          m.namesById[i] \in DOMAIN m.Keys /\ m.Keys[m.namesById[i]] = i

\* C12: after any Add and AddWithID calls, failing ones included, names and
\* ids correspond one to one, and a registered (name, id) pair is never
\* changed or removed by a later call.
C12_RegistryOneToOne ==
    /\ []OneToOne(MetaKeys)
    /\ [][/\ \A n \in DOMAIN MetaKeys.Keys :
                n \in DOMAIN MetaKeys'.Keys /\ MetaKeys'.Keys[n] = MetaKeys.Keys[n]
          /\ \A i \in DOMAIN MetaKeys.namesById :
                /\ i \in DOMAIN MetaKeys'.namesById
                /\ MetaKeys'.namesById[i] = MetaKeys.namesById[i]]_vars

C12_Witness ==
    /\ ret.op = "AddWithID" /\ ret.err = "name exists with other id"
    /\ Cardinality(DOMAIN MetaKeys.Keys) = Cardinality(Names)

\* C17: the counter is greater than every registered id, so Add of an
\* unregistered name returns an id that no name is bound to.
C17_CounterAboveIds ==
    /\ [](\A i \in DOMAIN MetaKeys.namesById : i < MetaKeys.maxID)
    /\ [][(ret'.op = "Add" /\ ret'.name \notin DOMAIN MetaKeys.Keys)
          => ret'.key.ID \notin DOMAIN MetaKeys.namesById]_vars

C17_Witness ==
    /\ ret.op = "Add" /\ ~ret.ok
    /\ ret.key.ID = MaxKeyID + 1
    /\ MaxKeyID \in DOMAIN MetaKeys.namesById

\* The meta rows a step added to the store.
NewMetaRows == db'.log_entries_meta \ db.log_entries_meta

\* C13: Write leaves the registry (names, ids, counter) as it was, for every
\* record, stored or failing; a key the registry does not have is stored by
\* its literal name and is still unregistered afterwards.
C13_WriteNeverInterns ==
    [][ret'.op = "Write"
       => /\ MetaKeys' = MetaKeys
          /\ \A r \in NewMetaRows :
                r.name # Null => r.name[1] \notin DOMAIN MetaKeys'.Keys]_vars

C13_Witness ==
    /\ ret.op = "Write" /\ ret.err = "nil"
    /\ DOMAIN MetaKeys.Keys # {}
    /\ \E r \in db.log_entries_meta :
          /\ r.log_entry_id = ret.logEntryID
          /\ r.name # Null /\ r.name[1] \notin DOMAIN MetaKeys.Keys

\* A meta row stores the field k of value v under registry m: by the id of k
\* and no name if m has k, by the name k and no id otherwise.
StoresField(r, m, k, v) ==
    /\ RowHolds(r, v)
    /\ IF k \in DOMAIN m.Keys
       THEN r.meta_key_id = Some(m.Keys[k]) /\ r.name = Null
       ELSE r.name = Some(k) /\ r.meta_key_id = Null

\* C19: every meta row in the store has exactly one of name and meta_key_id
\* set, and each row a Write adds stores a field of its record by the key's id
\* if the registry has the key at that moment, by the key's name otherwise.
C19_NameXorMetaKeyID ==
    /\ [](\A r \in db.log_entries_meta : (r.name = Null) # (r.meta_key_id = Null))
    /\ [][ret'.op = "Write"
          => \A r \in NewMetaRows :
                \E k \in DOMAIN Extras(ret'.p) :
                    StoresField(r, MetaKeys, k, Extras(ret'.p)[k])]_vars

C19_Witness ==
    /\ ret.op = "Write"
    /\ \E r \in db.log_entries_meta :
          r.log_entry_id = ret.logEntryID /\ r.name # Null
    /\ \E r \in db.log_entries_meta :
          r.log_entry_id = ret.logEntryID /\ r.meta_key_id # Null /\ r.meta_key_id[1] > 0

\* Every (name, id) pair of registry m is a row of the meta_keys table mk.
Persisted(m, mk) ==
    \A n \in DOMAIN m.Keys : m.Keys[n] \in DOMAIN mk /\ mk[m.Keys[n]] = n

\* C14: Init run again on a store that an Init with the same registry has set
\* up returns no error and leaves every table (log_entries, log_entries_meta,
\* meta_keys, type_enum) with the rows it had.
C14_InitIdempotent ==
    [][(/\ ret'.op = "Init"
        /\ Initialised /\ "type_enum" \in db.tables
        /\ Persisted(MetaKeys, db.meta_keys))
       => /\ ret'.err = "nil"
          /\ db' = db]_vars

C14_Witness ==
    /\ ret.op = "Init" /\ ret.err = "nil"
    /\ db.log_entries # {}
    /\ Cardinality(DOMAIN db.meta_keys) = Cardinality(Names)
    /\ Cardinality(DOMAIN db.type_enum) = 4

\* C18: after a successful Init the registry in memory holds exactly the
\* pairs of the meta_keys table, and every pair of the registry Init was
\* given is among them under the same id.
C18_InitLoadsPersistedRegistry ==
    [][(ret'.op = "Init" /\ ret'.err = "nil")
       => /\ DOMAIN MetaKeys'.namesById = DOMAIN db'.meta_keys
          /\ \A i \in DOMAIN db'.meta_keys :
                /\ MetaKeys'.namesById[i] = db'.meta_keys[i]
                /\ db'.meta_keys[i] \in DOMAIN MetaKeys'.Keys
                /\ MetaKeys'.Keys[db'.meta_keys[i]] = i
          /\ DOMAIN MetaKeys'.Keys = {db'.meta_keys[i] : i \in DOMAIN db'.meta_keys}
          /\ \A n \in DOMAIN MetaKeys.Keys :
                n \in DOMAIN MetaKeys'.Keys /\ MetaKeys'.Keys[n] = MetaKeys.Keys[n]]_vars

C18_Witness ==
    /\ ret.op = "Init" /\ ret.err = "nil"
    /\ db.log_entries # {}
    /\ DOMAIN MetaKeys.Keys = {"count"}
    /\ MetaKeys.Keys["count"] = 0

\* The type tag of a meta row selects no value: the tag is unknown or the
\* slot it selects is unset.
SlotUnset(r) ==
    CASE r.type = LogEntryTypeReal -> r.real_value = Null
      [] r.type = LogEntryTypeText -> r.text_value = Null
      [] r.type \in {LogEntryTypeBlob, LogEntryTypeJSON} -> r.blob_value = Null
      [] OTHER -> TRUE

\* The entries a filter of a level alone matches.
Matched(gef) ==
    {e \in db.log_entries : gef.Level = "" \/ e.level = gef.Level}

\* C15: a read that matches an entry one of whose meta rows has an unknown
\* type tag, or a tag whose value slot is unset, returns an error and no
\* entries at all.
C15_IntegrityErrorFailsRead ==
    (/\ ret.op = "GetEntries" /\ ret.filter \in LevelFilters
     /\ \E r \in db.log_entries_meta :
           SlotUnset(r) /\ \E e \in Matched(ret.filter) : e.id = r.log_entry_id)
        => /\ ret.err # "nil"
           /\ ret.entries = <<>>

C15_Witness ==
    /\ ret.op = "GetEntries"
    /\ ret.err \in {"real value is nil", "blob value is nil", "unknown type"}
    /\ \E e \in Matched(ret.filter) :
          ~\E r \in db.log_entries_meta : r.log_entry_id = e.id /\ SlotUnset(r)

\* Every meta row of entry e holds an absent value (the JSON null); an entry
\* without meta rows is such an entry.
AllUnset(e) ==
    \A r \in db.log_entries_meta :
        r.log_entry_id = e.id => (r.type = LogEntryTypeJSON /\ r.blob_value = Some("null"))

\* C16: a successful read returns every entry its filter matches, whatever
\* rows were skipped, and returns an entry whose extra fields are all unset,
\* or that has no meta row, with an empty meta mapping.
C16_UnsetFieldsKeepEntry ==
    (ret.op = "GetEntries" /\ ret.filter \in LevelFilters /\ ret.err = "nil")
        => /\ ReturnedIDs = {e.id : e \in Matched(ret.filter)}
           /\ \A e \in Matched(ret.filter) :
                 AllUnset(e) => \E i \in 1..Len(ret.entries) :
                                   /\ ret.entries[i].ID = e.id
                                   /\ ret.entries[i].Meta = EmptyMap

C16_Witness ==
    /\ ret.op = "GetEntries" /\ ret.err = "nil"
    /\ \E i, j \in 1..Len(ret.entries) :
          /\ ret.entries[i].Meta = EmptyMap /\ ret.entries[j].Meta = EmptyMap
          /\ \E r \in db.log_entries_meta : r.log_entry_id = ret.entries[i].ID
          /\ ~\E r \in db.log_entries_meta : r.log_entry_id = ret.entries[j].ID

\* The value column that Write fills for a value.
WriteColumn(v) ==
    CASE EncodeValue(v).real_value # Null -> "real_value"
      [] EncodeValue(v).text_value # Null -> "text_value"
      [] OTHER -> "blob_value"

\* The columns of the meta table that the conditions built for the pair
\* (k, v) compare with v.
FilterColumns(m, k, v) ==
    {c.col : c \in {x \in Refs(MetaFiltersWhere(m, (k :> v), <<k>>, 1)[1]) : x.tbl = "lem"}}

\* C20: for every expected value of metaFilters, the column the filter
\* compares is the column in which Write stores a value of that kind.
C20_FilterComparesWriteColumn ==
    (ret.op = "GetEntries" /\ DOMAIN ret.filter.MetaFilters # {})
        => \A k \in DOMAIN ret.filter.MetaFilters :
              FilterColumns(MetaKeys, k, ret.filter.MetaFilters[k])
                  = {WriteColumn(ret.filter.MetaFilters[k])}

\* C21: every meta row stored with a meta_key_id refers to a row of the
\* meta_keys table, and a row that Write adds under the id of a registered
\* key finds in meta_keys the name of that key.
C21_InternedKeysArePersisted ==
    /\ [](\A r \in db.log_entries_meta :
             r.meta_key_id # Null => r.meta_key_id[1] \in DOMAIN db.meta_keys)
    /\ [][ret'.op = "Write"
          => \A r \in NewMetaRows :
                r.meta_key_id # Null
                    => /\ r.meta_key_id[1] \in DOMAIN db'.meta_keys
                       /\ db'.meta_keys[r.meta_key_id[1]]
                              = MetaKeys.namesById[r.meta_key_id[1]]]_vars

====
